---- MODULE Spec2Model ----
(***************************************************************************)
(* Model of haricot's analysis engine (src/src/libhar.rs) and of the       *)
(* dispatch in src/src/main.rs: the overview of all entries, the body of   *)
(* one entry, the entry count, and the expansion of private data.          *)
(*                                                                         *)
(* A text is a sequence of Unicode code points; its length in the program  *)
(* (str::len) is the number of bytes of its UTF-8 encoding.                *)
(***************************************************************************)
EXTENDS Integers, Sequences, FiniteSets, TLC

VARIABLES doc, pc, op, out, outcome, jdoc, jres

vars == <<doc, pc, op, out, outcome, jdoc, jres>>

(***************************************************************************)
(* Bounds of the model.                                                    *)
(***************************************************************************)
MaxHead == 1
MaxTail == 1
MaxPairs == 3
MaxEntries == 2
MaxStrLen == 3

(***************************************************************************)
(* Option<T>.                                                              *)
(***************************************************************************)
None == [some |-> FALSE]
Some(x) == [some |-> TRUE, v |-> x]

Min(a, b) == IF a < b THEN a ELSE b

(***************************************************************************)
(* Characters.                                                             *)
(***************************************************************************)
NL == 10
CR == 13
TAB == 9
BACKSLASH == 92
LetterN == 110
LetterR == 114
LetterT == 116

\* Number of bytes of the UTF-8 encoding of code point c.
Utf8Width(c) == IF c < 128 THEN 1 ELSE IF c < 2048 THEN 2 ELSE IF c < 65536 THEN 3 ELSE 4

\* str::len: the length of a text in bytes.
RECURSIVE ByteLen(_)
ByteLen(text) ==
    IF Len(text) = 0 THEN 0
    ELSE IF Len(text) = 1 THEN Utf8Width(text[1])
    ELSE LET half == Len(text) \div 2
         IN  ByteLen(SubSeq(text, 1, half)) + ByteLen(SubSeq(text, half + 1, Len(text)))

\* char::is_whitespace, as used by str::trim.
IsWhitespace(c) == c \in {9, 10, 11, 12, 13, 32, 133, 160}

\* text[..n] for n <= ByteLen(text): the prefix of n bytes; it panics when
\* byte n is not the end of a character.
RECURSIVE SliceTo(_, _)
SliceTo(text, n) ==
    IF n = 0 THEN [ok |-> TRUE, s |-> <<>>]
    ELSE IF Len(text) = 1
         THEN [ok |-> Utf8Width(text[1]) = n, s |-> IF Utf8Width(text[1]) = n THEN text ELSE <<>>]
    ELSE LET half == Len(text) \div 2
             left == SubSeq(text, 1, half)
             bl == ByteLen(left)
         IN  IF n <= bl THEN SliceTo(left, n)
             ELSE LET r == SliceTo(SubSeq(text, half + 1, Len(text)), n - bl)
                  IN  [ok |-> r.ok, s |-> IF r.ok THEN left \o r.s ELSE <<>>]

\* str::replace of the one-character pattern c by the text to.
RECURSIVE Replace(_, _, _)
Replace(text, c, to) ==
    IF Len(text) = 0 THEN <<>>
    ELSE IF Len(text) = 1 THEN (IF text[1] = c THEN to ELSE text)
    ELSE LET half == Len(text) \div 2
         IN  Replace(SubSeq(text, 1, half), c, to)
             \o Replace(SubSeq(text, half + 1, Len(text)), c, to)

\* Escape that escapes the backslash as well.
EscapeMut(text) ==
    Replace(Replace(Replace(Replace(text, BACKSLASH, <<BACKSLASH, BACKSLASH>>),
                            NL, <<BACKSLASH, LetterN>>),
                    CR, <<BACKSLASH, LetterR>>),
            TAB, <<BACKSLASH, LetterT>>)

\* The three replacements of cut_text, in the order of the code.
Escape(text) ==
    Replace(Replace(Replace(text, NL, <<BACKSLASH, LetterN>>),
                    CR, <<BACKSLASH, LetterR>>),
            TAB, <<BACKSLASH, LetterT>>)

\* str::trim: from the first to the last character that is no white space.
Trim(text) ==
    LET keep == {i \in 1..Len(text) : ~IsWhitespace(text[i])}
    IN  IF keep = {} THEN <<>>
        ELSE SubSeq(text, CHOOSE i \in keep : \A j \in keep : i <= j,
                          CHOOSE i \in keep : \A j \in keep : i >= j)

\* cut_text: slice to at most maxlen bytes, escape, trim.
cut_text(text, maxlen) ==
    LET sl == SliceTo(text, Min(maxlen, ByteLen(text)))
    IN  IF sl.ok THEN [ok |-> TRUE, s |-> Trim(Escape(sl.s))]
        ELSE [ok |-> FALSE, s |-> <<>>]

\* The length passed to cut_text by print_overview.
PreviewLen == 80

(***************************************************************************)
(* Name/value listings.                                                    *)
(***************************************************************************)
\* Ordering of String (byte-wise lexicographic), on sequences of bytes.
RECURSIVE StrLess(_, _)
StrLess(a, b) ==
    IF b = <<>> THEN FALSE
    ELSE IF a = <<>> THEN TRUE
    ELSE IF Head(a) # Head(b) THEN Head(a) < Head(b)
    ELSE StrLess(Tail(a), Tail(b))

\* Insertion before the elements of equal name (not stable).
RECURSIVE InsertSortedMut(_, _)
InsertSortedMut(sorted, nv) ==
    IF sorted = <<>> THEN <<nv>>
    ELSE IF ~StrLess(Head(sorted).name, nv.name) THEN <<nv>> \o sorted
    ELSE <<Head(sorted)>> \o InsertSortedMut(Tail(sorted), nv)

\* Insert nv after every element that is not greater than it (stable).
RECURSIVE InsertSorted(_, _)
InsertSorted(sorted, nv) ==
    IF sorted = <<>> THEN <<nv>>
    ELSE IF StrLess(nv.name, Head(sorted).name) THEN <<nv>> \o sorted
    ELSE <<Head(sorted)>> \o InsertSorted(Tail(sorted), nv)

\* sort_by(|a, b| a.name.cmp(&b.name)): a stable sort by name.
RECURSIVE SortByName(_)
SortByName(nvs) ==
    IF nvs = <<>> THEN <<>>
    ELSE InsertSorted(SortByName(SubSeq(nvs, 1, Len(nvs) - 1)), nvs[Len(nvs)])

\* The test of print_name_vals that decides whether a pair is printed.
Shown(nv, excludes) == ~(excludes.some /\ nv.name \in excludes.v)

\* print_name_vals: the lines printed for a listing of entry ix, section sec.
RECURSIVE NameValLines(_, _, _, _)
NameValLines(sorted, excludes, ix, sec) ==
    IF sorted = <<>> THEN <<>>
    ELSE (IF Shown(Head(sorted), excludes)
          THEN <<[k |-> "nv", ix |-> ix, sec |-> sec,
                  name |-> Head(sorted).name, value |-> Head(sorted).value]>>
          ELSE <<>>)
         \o NameValLines(Tail(sorted), excludes, ix, sec)

print_name_vals(nvs, excludes, ix, sec) ==
    NameValLines(SortByName(nvs), excludes, ix, sec)

(***************************************************************************)
(* URLs.  A URL string is a sequence of components as they follow each     *)
(* other in the string: an optional scheme "http:", an authority "//h",    *)
(* an optional path "/p", and an optional "?" followed by the query.       *)
(***************************************************************************)
\* Url::parse: a string without a scheme is not an absolute URL (error);
\* an empty path is normalised to "/"; the query is what follows "?".
UrlParse(s) ==
    IF s = <<>> \/ Head(s) # "http:" THEN [ok |-> FALSE]
    ELSE LET rest == Tail(Tail(s))
             hasPath == rest # <<>> /\ Head(rest) = "/p"
             afterPath == IF hasPath THEN Tail(rest) ELSE rest
         IN  [ok |-> TRUE,
              url |-> [scheme |-> Head(s), host |-> s[2],
                       path |-> IF hasPath THEN "/p" ELSE "/",
                       query |-> IF afterPath # <<>> /\ Head(afterPath) = "?"
                                 THEN Some(Tail(afterPath)) ELSE None]]

\* url.set_query(None)
SetQueryNone(url) == [url EXCEPT !.query = None]

\* Display of a Url: its serialisation.
UrlDisplay(url) ==
    <<url.scheme, url.host, url.path>>
    \o (IF url.query.some THEN <<"?">> \o url.query.v ELSE <<>>)

(***************************************************************************)
(* print_overview.  A printed line is a record: k is the kind of line, ix  *)
(* the index of the entry it belongs to and sec the listing or body it     *)
(* belongs to.                                                             *)
(***************************************************************************)
\* A listing whose title is printed only when a pair is printed.
ListingMut(nvs, excludes, ix, sec) ==
    IF print_name_vals(nvs, excludes, ix, sec) # <<>>
    THEN <<[k |-> "title", ix |-> ix, sec |-> sec]>> \o print_name_vals(nvs, excludes, ix, sec)
    ELSE <<>>

\* The lines of a listing: nothing for an empty one, else title and pairs.
Listing(nvs, excludes, ix, sec) ==
    IF Len(nvs) > 0
    THEN <<[k |-> "title", ix |-> ix, sec |-> sec]>> \o print_name_vals(nvs, excludes, ix, sec)
    ELSE <<>>

\* The preview line of a body text: the cut text and the ellipsis.
PreviewLine(cut, ix, sec) ==
    [k |-> "text", ix |-> ix, sec |-> sec, preview |-> cut.s, ellipsis |-> TRUE]

\* The post data section of a request; cut_text may panic after the first lines.
PostDataLines(req, ix) ==
    IF req.postData.some
    THEN LET pd == req.postData.v
             cut == cut_text(pd.text, PreviewLen)
             first == <<[k |-> "title", ix |-> ix, sec |-> "post"],
                        [k |-> "mime", ix |-> ix, sec |-> "post"],
                        [k |-> "length", ix |-> ix, sec |-> "post", n |-> ByteLen(pd.text)]>>
         IN  IF cut.ok THEN [ok |-> TRUE, out |-> Append(first, PreviewLine(cut, ix, "post"))]
             ELSE [ok |-> FALSE, out |-> first]
    ELSE [ok |-> TRUE, out |-> <<>>]

\* The response part of an entry's block.
ResponseLines(resp, ix, headers_excludes) ==
    LET cut == cut_text(resp.content.text, PreviewLen)
        first == <<[k |-> "status", ix |-> ix, sec |-> "resp"]>>
                 \o Listing(resp.headers, headers_excludes, ix, "resph")
                 \o <<[k |-> "title", ix |-> ix, sec |-> "content"],
                      [k |-> "mime", ix |-> ix, sec |-> "content"],
                      [k |-> "size", ix |-> ix, sec |-> "content"]>>
    IN  IF cut.ok
        THEN [ok |-> TRUE, out |-> first \o <<PreviewLine(cut, ix, "content"),
                                              [k |-> "gap", ix |-> ix, sec |-> "content"]>>]
        ELSE [ok |-> FALSE, out |-> first]

\* The body of the loop of print_overview for entry e with index ix.
EntryBlock(e, ix, short_url, query_string_excludes, headers_excludes) ==
    LET parsed == UrlParse(e.request.url)
    IN  IF ~parsed.ok THEN [res |-> "err", out |-> <<>>]
        ELSE
        LET url == IF short_url THEN SetQueryNone(parsed.url) ELSE parsed.url
            head == <<[k |-> "url", ix |-> ix, sec |-> "req", url |-> UrlDisplay(url)]>>
                    \o Listing(e.request.queryString, query_string_excludes, ix, "qs")
                    \o Listing(e.request.headers, headers_excludes, ix, "reqh")
            post == PostDataLines(e.request, ix)
            resp == ResponseLines(e.response, ix, headers_excludes)
        IN  IF ~post.ok THEN [res |-> "panic", out |-> head \o post.out]
            ELSE IF ~resp.ok THEN [res |-> "panic", out |-> head \o post.out \o resp.out]
            ELSE [res |-> "ok", out |-> head \o post.out \o resp.out]

\* A loop that goes on with the next entry after a failure.
RECURSIVE OverviewFromMut(_, _, _, _, _)
OverviewFromMut(entries, ix, short_url, query_string_excludes, headers_excludes) ==
    IF ix >= Len(entries) THEN [res |-> "ok", out |-> <<>>]
    ELSE LET b == EntryBlock(entries[ix + 1], ix, short_url,
                             query_string_excludes, headers_excludes)
             rest == OverviewFromMut(entries, ix + 1, short_url,
                                     query_string_excludes, headers_excludes)
         IN  [res |-> IF b.res # "ok" THEN b.res ELSE rest.res, out |-> b.out \o rest.out]

\* The loop of print_overview from entry ix (0-based) on; stops at the first failure.
RECURSIVE OverviewFrom(_, _, _, _, _)
OverviewFrom(entries, ix, short_url, query_string_excludes, headers_excludes) ==
    IF ix >= Len(entries) THEN [res |-> "ok", out |-> <<>>]
    ELSE LET b == EntryBlock(entries[ix + 1], ix, short_url,
                             query_string_excludes, headers_excludes)
         IN  IF b.res # "ok" THEN b
             ELSE LET rest == OverviewFrom(entries, ix + 1, short_url,
                                           query_string_excludes, headers_excludes)
                  IN  [res |-> rest.res, out |-> b.out \o rest.out]

\* print_overview: the count line, then one block per entry.
print_overview(d, short_url, query_string_excludes, headers_excludes) ==
    LET loop == OverviewFrom(d.log.entries, 0, short_url,
                             query_string_excludes, headers_excludes)
    IN  [res |-> loop.res,
         out |-> <<[k |-> "count", n |-> Len(d.log.entries)]>> \o loop.out]

(***************************************************************************)
(* JSON values (serde_json::Value).  A string is a sequence of code        *)
(* points, an object a function from keys to values.                       *)
(***************************************************************************)
JNull == [t |-> "null"]
JBool(b) == [t |-> "bool", b |-> b]
JNum(n) == [t |-> "num", n |-> n]
JStr(s) == [t |-> "str", s |-> s]
JObj(f) == [t |-> "obj", f |-> f]

\* value[key] read-only: Null unless value is an object that has the key.
Index(v, key) == IF v.t = "obj" /\ key \in DOMAIN v.f THEN v.f[key] ELSE JNull

\* value[key] = new: Null becomes an object; neither object nor Null panics.
IndexSet(v, key, new) ==
    IF v.t = "obj" THEN [ok |-> TRUE, v |-> JObj((key :> new) @@ v.f)]
    ELSE IF v.t = "null" THEN [ok |-> TRUE, v |-> JObj(key :> new)]
    ELSE [ok |-> FALSE, v |-> v]

\* str::as_bytes: the UTF-8 encoding.
RECURSIVE Utf8Encode(_)
Utf8Encode(s) ==
    IF s = <<>> THEN <<>>
    ELSE LET c == Head(s)
         IN  (IF c < 128 THEN <<c>>
              ELSE IF c < 2048 THEN <<192 + (c \div 64), 128 + (c % 64)>>
              ELSE IF c < 65536
                   THEN <<224 + (c \div 4096), 128 + ((c \div 64) % 64), 128 + (c % 64)>>
              ELSE <<240 + (c \div 262144), 128 + ((c \div 4096) % 64),
                     128 + ((c \div 64) % 64), 128 + (c % 64)>>)
             \o Utf8Encode(Tail(s))

\* Value of a hexadecimal digit, -1 for any other byte.
HexVal(b) ==
    IF b \in 48..57 THEN b - 48
    ELSE IF b \in 65..70 THEN b - 55
    ELSE IF b \in 97..102 THEN b - 87
    ELSE -1

\* percent_decode: %XY with two hex digits is one byte, all else is kept.
RECURSIVE PercentDecode(_)
PercentDecode(bytes) ==
    IF bytes = <<>> THEN <<>>
    ELSE IF /\ Head(bytes) = 37 /\ Len(bytes) >= 3
            /\ HexVal(bytes[2]) >= 0 /\ HexVal(bytes[3]) >= 0
         THEN <<16 * HexVal(bytes[2]) + HexVal(bytes[3])>>
              \o PercentDecode(SubSeq(bytes, 4, Len(bytes)))
         ELSE <<Head(bytes)>> \o PercentDecode(Tail(bytes))

IsCont(b) == b \in 128..191

\* decode_utf8: the code points of a byte sequence, or an error.
RECURSIVE Utf8Decode(_)
Utf8Decode(bytes) ==
    IF bytes = <<>> THEN [ok |-> TRUE, s |-> <<>>]
    ELSE
    LET b == Head(bytes)
        n == IF b < 128 THEN 1 ELSE IF b \in 194..223 THEN 2
             ELSE IF b \in 224..239 THEN 3 ELSE IF b \in 240..244 THEN 4 ELSE 0
        wellFormed ==
            /\ n > 0 /\ Len(bytes) >= n
            /\ \A i \in 2..n : IsCont(bytes[i])
            /\ (b = 224 => bytes[2] >= 160) /\ (b = 237 => bytes[2] <= 159)
            /\ (b = 240 => bytes[2] >= 144) /\ (b = 244 => bytes[2] <= 143)
        c == IF n = 1 THEN b
             ELSE IF n = 2 THEN (b - 192) * 64 + (bytes[2] - 128)
             ELSE IF n = 3 THEN (b - 224) * 4096 + (bytes[2] - 128) * 64 + (bytes[3] - 128)
             ELSE (b - 240) * 262144 + (bytes[2] - 128) * 4096
                  + (bytes[3] - 128) * 64 + (bytes[4] - 128)
    IN  IF ~wellFormed THEN [ok |-> FALSE, s |-> <<>>]
        ELSE LET rest == Utf8Decode(SubSeq(bytes, n + 1, Len(bytes)))
             IN  [ok |-> rest.ok, s |-> IF rest.ok THEN <<c>> \o rest.s ELSE <<>>]

IsDigit(c) == c \in 48..57
IsJsonSpace(c) == c \in {9, 10, 13, 32}

\* s without the white space before and after the JSON value.
SkipJsonSpace(s) ==
    LET keep == {i \in 1..Len(s) : ~IsJsonSpace(s[i])}
    IN  IF keep = {} THEN <<>>
        ELSE SubSeq(s, CHOOSE i \in keep : \A j \in keep : i <= j,
                       CHOOSE i \in keep : \A j \in keep : i >= j)

RECURSIVE Decimal(_)
Decimal(s) == IF s = <<>> THEN 0 ELSE 10 * Decimal(SubSeq(s, 1, Len(s) - 1)) + (s[Len(s)] - 48)

\* serde_json::from_str on texts made of digits, white space and characters
\* that are no JSON token: an unsigned integer between optional white space
\* is a number, every other such text is a syntax error.
from_str(s) ==
    LET body == SkipJsonSpace(s)
    IN  IF /\ body # <<>>
           /\ \A i \in 1..Len(body) : IsDigit(body[i])
           /\ (Len(body) > 1 => body[1] # 48)
        THEN [ok |-> TRUE, v |-> JNum(Decimal(body))]
        ELSE [ok |-> FALSE, v |-> JNull]

\* An expansion that rejects a value that is not a string.
expand_privates_2_mut(pr) ==
    IF pr.t = "str"
    THEN LET decoded_s == Utf8Decode(PercentDecode(Utf8Encode(pr.s)))
         IN  IF ~decoded_s.ok THEN [ok |-> FALSE, v |-> JNull]
             ELSE from_str(decoded_s.s)
    ELSE [ok |-> FALSE, v |-> JNull]

\* expand_privates_2: a string is percent-decoded, decoded as UTF-8 and
\* parsed as JSON; any other value is returned as it is.
expand_privates_2(pr) ==
    IF pr.t = "str"
    THEN LET decoded_s == Utf8Decode(PercentDecode(Utf8Encode(pr.s)))
         IN  IF ~decoded_s.ok THEN [ok |-> FALSE, v |-> JNull]
             ELSE from_str(decoded_s.s)
    ELSE [ok |-> TRUE, v |-> pr]

\* doc[k1][k2] = new
SetPath2(d, k1, k2, new) ==
    LET inner == IndexSet(Index(d, k1), k2, new)
    IN  IF inner.ok THEN IndexSet(d, k1, inner.v) ELSE inner

\* doc[k1][k2][k3] = new
SetPath3(d, k1, k2, k3, new) ==
    LET inner == SetPath2(Index(d, k1), k2, k3, new)
    IN  IF inner.ok THEN IndexSet(d, k1, inner.v) ELSE inner

\* An expansion that looks at Resource.Device.DevicePrivateData first.
expand_parsed_mut(parsed) ==
    LET prA == Index(Index(parsed, "AddDevice"), "DevicePrivateData")
        prB == Index(Index(Index(parsed, "Resource"), "Device"), "DevicePrivateData")
    IN  IF prB # JNull
        THEN LET x == expand_privates_2(prB)
             IN  IF x.ok THEN SetPath3(parsed, "Resource", "Device", "DevicePrivateData", x.v)
                 ELSE [ok |-> FALSE, v |-> JNull]
        ELSE IF prA # JNull
        THEN LET x == expand_privates_2(prA)
             IN  IF x.ok THEN SetPath2(parsed, "AddDevice", "DevicePrivateData", x.v)
                 ELSE [ok |-> FALSE, v |-> JNull]
        ELSE [ok |-> TRUE, v |-> parsed]

\* expand_privates after the text has been parsed into parsed.
expand_parsed(parsed) ==
    LET prA == Index(Index(parsed, "AddDevice"), "DevicePrivateData")
        prB == Index(Index(Index(parsed, "Resource"), "Device"), "DevicePrivateData")
    IN  IF prA # JNull
        THEN LET x == expand_privates_2(prA)
             IN  IF x.ok THEN SetPath2(parsed, "AddDevice", "DevicePrivateData", x.v)
                 ELSE [ok |-> FALSE, v |-> JNull]
        ELSE IF prB # JNull
        THEN LET x == expand_privates_2(prB)
             IN  IF x.ok THEN SetPath3(parsed, "Resource", "Device", "DevicePrivateData", x.v)
                 ELSE [ok |-> FALSE, v |-> JNull]
        ELSE [ok |-> TRUE, v |-> parsed]

\* expand_privates: parse the text, then expand.
expand_privates(text) ==
    LET parsed == from_str(text)
    IN  IF parsed.ok THEN expand_parsed(parsed.v) ELSE [ok |-> FALSE, v |-> JNull]

(***************************************************************************)
(* print_body.                                                             *)
(***************************************************************************)
\* The body of text: as it is, or expanded (unwrap panics on an error).
BodyLines(text, ecs) ==
    IF ecs
    THEN LET x == expand_privates(text)
         IN  IF x.ok THEN [res |-> "ok", out |-> <<[k |-> "json", v |-> x.v]>>]
             ELSE [res |-> "panic", out |-> <<>>]
    ELSE [res |-> "ok", out |-> <<[k |-> "body", text |-> text]>>]

\* A print_body that takes missing post data for an empty text.
print_body_mut(d, num, which, ecs) ==
    IF num >= Len(d.log.entries) THEN [res |-> "panic", out |-> <<>>]
    ELSE LET e == d.log.entries[num + 1]
         IN  IF which = "req"
             THEN IF e.request.postData.some
                  THEN BodyLines(e.request.postData.v.text, ecs)
                  ELSE BodyLines(<<>>, ecs)
             ELSE BodyLines(e.response.content.text, ecs)

\* print_body: indexing entries out of range panics.
print_body(d, num, which, ecs) ==
    IF num >= Len(d.log.entries) THEN [res |-> "panic", out |-> <<>>]
    ELSE LET e == d.log.entries[num + 1]
         IN  IF which = "req"
             THEN IF e.request.postData.some
                  THEN BodyLines(e.request.postData.v.text, ecs)
                  ELSE [res |-> "ok", out |-> <<[k |-> "nopost", num |-> num]>>]
             ELSE BodyLines(e.response.content.text, ecs)

(***************************************************************************)
(* The documents and arguments the operations are run on.                  *)
(***************************************************************************)
SeqsUpTo(S, n) == UNION {[1..m -> S] : m \in 0..n}

\* space, newline, carriage return, tab, e-acute (2 bytes)
Alphabet == {32, 10, 13, 9, 233}

\* space, e-acute
TailAlphabet == {32, 233}

Pad(n) == [i \in 1..n |-> 97]

PadLens == {0, PreviewLen - 1, PreviewLen}

\* The texts: a few characters, a run of the letter a, a few characters.
TextParts == SeqsUpTo(Alphabet, MaxHead) \X PadLens \X SeqsUpTo(TailAlphabet, MaxTail)

TextOf(parts) == parts[1] \o Pad(parts[2]) \o parts[3]

\* "a", "ab", "b"
Names == {<<97>>, <<97, 98>>, <<98>>}

\* a:1, a:2, ab:1, b:1
Pairs ==
    {[name |-> <<97>>, value |-> <<49>>], [name |-> <<97>>, value |-> <<50>>],
     [name |-> <<97, 98>>, value |-> <<49>>], [name |-> <<98>>, value |-> <<49>>]}

UrlFull == <<"http:", "//h", "/p", "?", "a=1">>
UrlNoPath == <<"http:", "//h", "?", "a=1">>
UrlPlain == <<"http:", "//h", "/p">>
UrlBad == <<"//h", "/p">>

Urls == {UrlFull, UrlNoPath, UrlPlain, UrlBad}

SomeHeaders == <<[name |-> <<97, 98>>, value |-> <<49>>], [name |-> <<97>>, value |-> <<50>>],
                 [name |-> <<97, 98>>, value |-> <<50>>]>>

Entry(url, queryString, headers, postData, respHeaders, respText) ==
    [request |-> [url |-> url, queryString |-> queryString, headers |-> headers,
                  postData |-> postData],
     response |-> [headers |-> respHeaders, content |-> [text |-> respText]]]

PostData(text) == Some([text |-> text])

MakeDoc(entries) == [log |-> [entries |-> entries]]

\* One entry whose response text (post FALSE) or post data (post TRUE) is text.
DocOfText(text, post) ==
    IF post THEN MakeDoc(<<Entry(UrlFull, <<>>, <<>>, PostData(text), <<>>, <<>>)>>)
    ELSE MakeDoc(<<Entry(UrlFull, <<>>, <<>>, None, <<>>, text)>>)

\* One entry with the listings queryString, headers and response headers.
DocOfPairs(queryString, headers, respHeaders) ==
    MakeDoc(<<Entry(UrlFull, queryString, headers, None, respHeaders, <<>>)>>)

\* The entries of the documents of several entries; the response text is "1".
SmallEntries ==
    {Entry(u, <<[name |-> <<97>>, value |-> <<49>>]>>, <<>>, pd, <<>>, <<49>>) : <<u, pd>> \in
        Urls \X {None, PostData(<<>>)}}

QueryStringExcludes ==
    {None, Some({}), Some({<<97>>}), Some({<<65>>, <<98>>}), Some(Names)}

HeadersExcludes == {None, Some({<<97>>})}

\* Strings of JSON values: %, 3, 1, F
StrAlphabet == {37, 51, 49, 70}

JVals ==
    {JNull, JNum(5), JBool(TRUE), JObj(<<>>)}
    \cup {JStr(s) : s \in SeqsUpTo(StrAlphabet, MaxStrLen)}

\* What a body may hold under the key AddDevice (absent: no such key).
AddDeviceChoices ==
    {None, Some(JNum(7)), Some(JObj(<<>>))}
    \cup {Some(JObj("DevicePrivateData" :> v)) : v \in JVals}

\* What a body may hold under the key Resource.
ResourceChoices ==
    {None, Some(JNum(7)), Some(JObj(<<>>)), Some(JObj("Device" :> JNum(7))),
     Some(JObj("Device" :> JObj(<<>>)))}
    \cup {Some(JObj("Device" :> JObj("DevicePrivateData" :> v))) : v \in JVals}

OptKey(key, choice) == IF choice.some THEN key :> choice.v ELSE <<>>

\* A parsed body with the given choices for AddDevice and Resource.
JDocOf(a, r) == JObj(OptKey("AddDevice", a) @@ OptKey("Resource", r))

(***************************************************************************)
(* The program: a document is decoded, then one operation runs on it.      *)
(***************************************************************************)
NoOp == [name |-> "none"]
NoResult == [ok |-> FALSE, v |-> JNull]

Init ==
    /\ \/ \E parts \in TextParts, post \in BOOLEAN : doc = DocOfText(TextOf(parts), post)
       \/ \E qs \in SeqsUpTo(Pairs, MaxPairs), h, rh \in {<<>>, SomeHeaders} :
             doc = DocOfPairs(qs, h, rh)
       \/ \E es \in SeqsUpTo(SmallEntries, MaxEntries) : doc = MakeDoc(es)
    /\ pc = "ready"
    /\ op = NoOp
    /\ out = <<>>
    /\ outcome = "none"
    /\ jdoc = JNull
    /\ jres = NoResult

\* run, subcommand summary (and no subcommand): print_overview; an Err is
\* returned to main, which logs it and exits.
PrintOverview ==
    /\ pc = "ready"
    /\ \E short_url \in BOOLEAN, qse \in QueryStringExcludes, he \in HeadersExcludes :
        \E r \in {print_overview(doc, short_url, qse, he)} :
            /\ out' = r.out
            /\ outcome' = r.res
            /\ op' = [name |-> "overview", short_url |-> short_url, qse |-> qse, he |-> he]
    /\ pc' = "done"
    /\ UNCHANGED <<doc, jdoc, jres>>

\* run, subcommand body: print_body.
PrintBody ==
    /\ pc = "ready"
    /\ \E num \in 0..(MaxEntries + 1), which \in {"req", "resp"}, ecs \in BOOLEAN :
        \E r \in {print_body(doc, num, which, ecs)} :
            /\ out' = r.out
            /\ outcome' = r.res
            /\ op' = [name |-> "body", num |-> num, which |-> which, ecs |-> ecs]
    /\ pc' = "done"
    /\ UNCHANGED <<doc, jdoc, jres>>

\* run, subcommand entries: the number of entries.
CountEntries ==
    /\ pc = "ready"
    /\ out' = <<[k |-> "count", n |-> Len(doc.log.entries)]>>
    /\ outcome' = "ok"
    /\ op' = [name |-> "entries"]
    /\ pc' = "done"
    /\ UNCHANGED <<doc, jdoc, jres>>

Next == PrintOverview \/ PrintBody \/ CountEntries

Spec == Init /\ [][Next]_vars

(***************************************************************************)
(* expand_privates as a function of the parsed body.                       *)
(***************************************************************************)
InitExpand ==
    /\ \/ jdoc = JNum(1)
       \/ \E a \in AddDeviceChoices, r \in ResourceChoices : jdoc = JDocOf(a, r)
    /\ jres = NoResult
    /\ pc = "ready"
    /\ op = NoOp
    /\ out = <<>>
    /\ outcome = "none"
    /\ doc = MakeDoc(<<>>)

ExpandPrivates ==
    /\ pc = "ready"
    /\ \E r \in {expand_parsed(jdoc)} : jres' = r
    /\ op' = [name |-> "expand"]
    /\ pc' = "done"
    /\ UNCHANGED <<doc, out, outcome, jdoc>>

NextExpand == ExpandPrivates

SpecExpand == InitExpand /\ [][NextExpand]_vars

(***************************************************************************)
(* Properties.                                                             *)
(***************************************************************************)
Entries == doc.log.entries

IsOverview == pc = "done" /\ op.name = "overview"
IsBody == pc = "done" /\ op.name = "body"
IsExpand == pc = "done" /\ op.name = "expand"

\* The positions of the printed lines of kind k.
LinesOfKind(k) == {i \in 1..Len(out) : out[i].k = k}

\* The text a preview line was made from.
SourceText(l) ==
    IF l.sec = "post" THEN Entries[l.ix + 1].request.postData.v.text
    ELSE Entries[l.ix + 1].response.content.text

\* The pairs a listing was made from.
ListingSource(ix, sec) ==
    IF sec = "qs" THEN Entries[ix + 1].request.queryString
    ELSE IF sec = "reqh" THEN Entries[ix + 1].request.headers
    ELSE Entries[ix + 1].response.headers

\* The pairs printed for the listing sec of entry ix, in the order printed.
ListedPairs(ix, sec) ==
    LET L == SelectSeq(out, LAMBDA l : l.k = "nv" /\ l.ix = ix /\ l.sec = sec)
    IN  [i \in 1..Len(L) |-> [name |-> L[i].name, value |-> L[i].value]]

WithName(nvs, n) == SelectSeq(nvs, LAMBDA nv : nv.name = n)

Count(nvs, p) == Cardinality({i \in 1..Len(nvs) : nvs[i] = p})

HasTitle(ix, sec) ==
    \E i \in LinesOfKind("title") : out[i].ix = ix /\ out[i].sec = sec

HasControl(s) == \E i \in 1..Len(s) : s[i] \in {NL, CR, TAB}

\* The part of a text that cut_text escapes.
PreviewSlice(text) == SliceTo(text, Min(PreviewLen, ByteLen(text))).s

BadUrls == {i \in 1..Len(Entries) : ~UrlParse(Entries[i].request.url).ok}

\* 0-based index of the first entry whose URL does not parse.
FirstBadUrl == (CHOOSE i \in BadUrls : \A j \in BadUrls : i <= j) - 1

PathA(d) == Index(Index(d, "AddDevice"), "DevicePrivateData")
PathB(d) == Index(Index(Index(d, "Resource"), "Device"), "DevicePrivateData")

\* C1: body with an entry index equal to or greater than the number of
\* entries ends in an error returned to the caller, with no output.
C1_IndexErrorReported ==
    (IsBody /\ op.num >= Len(Entries)) => (outcome = "err" /\ out = <<>>)

\* C2: the preview of a body text of more than 80 characters is at most 80
\* characters long after escaping, followed by the ellipsis.
C2_PreviewAtMost80 ==
    IsOverview =>
        \A i \in LinesOfKind("text") :
            Len(SourceText(out[i])) > PreviewLen
                => (Len(out[i].preview) <= PreviewLen /\ out[i].ellipsis)

\* C3: the overview of a document whose URLs all parse completes normally
\* whatever the body texts are, and a preview holds only whole characters
\* of its text (and the characters of the escape sequences).
C3_NeverSplitsCharacter ==
    (IsOverview /\ BadUrls = {}) =>
        /\ outcome = "ok"
        /\ \A i \in LinesOfKind("text") :
              \A j \in 1..Len(out[i].preview) :
                  \/ \E m \in 1..Len(SourceText(out[i])) :
                        SourceText(out[i])[m] = out[i].preview[j]
                  \/ out[i].preview[j] \in {BACKSLASH, LetterN, LetterR, LetterT}

\* C4 as stated: an overview that fails at the URL of an entry k > 0 has
\* produced no output.
C4_NoPartialOutput ==
    (IsOverview /\ outcome = "err" /\ FirstBadUrl > 0) => out = <<>>

\* C4 as amended: an overview that fails at the URL of entry k has printed
\* the count line and the complete blocks of the entries 0..k-1 and nothing
\* of entry k or of a later entry; a body that fails has printed nothing.
C4_OutputUpToFailure ==
    /\ (IsOverview /\ outcome = "err") =>
          LET k == FirstBadUrl
              before == print_overview(MakeDoc(SubSeq(Entries, 1, k)),
                                       op.short_url, op.qse, op.he)
          IN  /\ BadUrls # {}
              /\ out[1] = [k |-> "count", n |-> Len(Entries)]
              /\ before.res = "ok"
              /\ Tail(out) = Tail(before.out)
              /\ \A i \in 2..Len(out) : out[i].ix < k
              /\ Cardinality(LinesOfKind("gap")) = k
    /\ (IsBody /\ outcome # "ok") => out = <<>>

C4_Witness ==
    /\ IsOverview /\ outcome = "err" /\ BadUrls = {2}
    /\ Len(out) > 1 /\ out[Len(out)].k = "gap" /\ out[Len(out)].ix = 0

\* C5: path A is tried first and path B only when path A is absent or null:
\* with a non-null value at A only A is replaced (by its decoded JSON) and B
\* stays as it was; with a non-null value at B only, B is replaced; with
\* neither, the parsed document is returned unchanged and without error.
C5_PathAFirst ==
    IsExpand =>
        LET a == PathA(jdoc)
            b == PathB(jdoc)
        IN  /\ (a # JNull /\ jres.ok) =>
                  /\ PathB(jres.v) = b
                  /\ Index(jres.v, "Resource") = Index(jdoc, "Resource")
                  /\ a.t = "str" => PathA(jres.v) = expand_privates_2(a).v
            /\ (a # JNull /\ a.t = "str") => jres.ok = expand_privates_2(a).ok
            /\ a = JStr(<<37, 51, 49>>) => (jres.ok /\ PathA(jres.v) = JNum(1))
            /\ (a = JNull /\ b # JNull /\ jres.ok) =>
                  /\ Index(jres.v, "AddDevice") = Index(jdoc, "AddDevice")
                  /\ b.t = "str" => PathB(jres.v) = expand_privates_2(b).v
            /\ (a = JNull /\ b = JStr(<<37, 51, 51>>)) =>
                  (jres.ok /\ PathB(jres.v) = JNum(3))
            /\ (a = JNull /\ b = JNull) => (jres.ok /\ jres.v = jdoc)

C5_Witness ==
    /\ IsExpand
    /\ PathA(jdoc) = JStr(<<37, 51, 49>>) /\ PathB(jdoc) = JStr(<<37, 51, 51>>)
    /\ jres.ok /\ PathA(jres.v) = JNum(1) /\ PathB(jres.v) = JStr(<<37, 51, 51>>)

\* C6: body of the request of a valid entry without post data gives the
\* "no post data" line naming the entry, expanded or not, and no error;
\* post data with an empty text gives, unexpanded, the empty body.
C6_NoPostData ==
    (IsBody /\ op.num < Len(Entries) /\ op.which = "req") =>
        LET pd == Entries[op.num + 1].request.postData
        IN  /\ ~pd.some =>
                  (outcome = "ok" /\ out = <<[k |-> "nopost", num |-> op.num]>>)
            /\ (pd.some /\ pd.v.text = <<>> /\ ~op.ecs) =>
                  (outcome = "ok" /\ out = <<[k |-> "body", text |-> <<>>]>>)

C6_Witness ==
    /\ IsBody /\ op.num = 1 /\ op.num < Len(Entries) /\ op.which = "req" /\ op.ecs
    /\ ~Entries[2].request.postData.some
    /\ Entries[1].request.postData.some
    /\ out = <<[k |-> "nopost", num |-> 1]>>

\* C7: every listing is printed in ascending order of the names, and the
\* pairs of one name are printed in the order they have in the document.
C7_SortedStable ==
    IsOverview =>
        \A t \in LinesOfKind("title") :
            out[t].sec \in {"qs", "reqh", "resph"} =>
                LET L == ListedPairs(out[t].ix, out[t].sec)
                    src == ListingSource(out[t].ix, out[t].sec)
                IN  /\ \A i, j \in 1..Len(L) :
                          i < j => ~StrLess(L[j].name, L[i].name)
                    /\ \A n \in Names :
                          WithName(L, n) # <<>> => WithName(L, n) = WithName(src, n)

C7_Witness ==
    /\ IsOverview /\ Len(Entries) = 1
    /\ Entries[1].request.queryString =
          <<[name |-> <<98>>, value |-> <<49>>], [name |-> <<97>>, value |-> <<50>>],
            [name |-> <<97>>, value |-> <<49>>]>>
    /\ ListedPairs(0, "qs") =
          <<[name |-> <<97>>, value |-> <<50>>], [name |-> <<97>>, value |-> <<49>>],
            [name |-> <<98>>, value |-> <<49>>]>>

\* C8: a query-string pair is listed iff its name is not excluded; the
\* exclude sets change neither the URL lines nor which listings have a
\* title; the query is stripped from the URL line iff shortUrl; the
\* query-string listing has its title whenever the request has a pair.
C8_ExcludesOnlyFilter ==
    IsOverview =>
        /\ \A t \in LinesOfKind("title") :
              out[t].sec = "qs" =>
                  \A p \in Pairs :
                      Count(ListedPairs(out[t].ix, "qs"), p) =
                          IF op.qse.some /\ p.name \in op.qse.v THEN 0
                          ELSE Count(ListingSource(out[t].ix, "qs"), p)
        /\ SelectSeq(out, LAMBDA l : l.k \in {"url", "title"}) =
              SelectSeq(print_overview(doc, op.short_url, None, None).out,
                        LAMBDA l : l.k \in {"url", "title"})
        /\ \A u \in LinesOfKind("url") :
              /\ HasTitle(out[u].ix, "qs") <=>
                    Len(Entries[out[u].ix + 1].request.queryString) > 0
              /\ (\E i \in 1..Len(out[u].url) : out[u].url[i] = "?") <=>
                    /\ ~op.short_url
                    /\ \E i \in 1..Len(Entries[out[u].ix + 1].request.url) :
                          Entries[out[u].ix + 1].request.url[i] = "?"

C8_Witness ==
    /\ IsOverview /\ op.qse = Some(Names) /\ ~op.short_url /\ outcome = "ok"
    /\ Len(Entries) = 1 /\ Len(Entries[1].request.queryString) = MaxPairs
    /\ HasTitle(0, "qs") /\ ListedPairs(0, "qs") = <<>>
    /\ \E u \in LinesOfKind("url") : out[u].url = UrlFull

\* C9 as stated: escaping a text that holds a newline, carriage return or
\* tab twice differs from escaping it once.
C9_EscapeNotIdempotent ==
    IsOverview =>
        \A i \in LinesOfKind("text") :
            LET sl == PreviewSlice(SourceText(out[i]))
            IN  HasControl(sl) => Escape(Escape(sl)) # Escape(sl)

\* C9 as amended: escaping twice gives the same as escaping once (a printed
\* preview is left as it is by the escape step), and escaping a text that
\* holds a newline, carriage return or tab changes it.
C9_EscapeIdempotent ==
    IsOverview =>
        \A i \in LinesOfKind("text") :
            LET sl == PreviewSlice(SourceText(out[i]))
            IN  /\ Escape(Escape(sl)) = Escape(sl)
                /\ Escape(out[i].preview) = out[i].preview
                /\ HasControl(sl) => Escape(sl) # sl

C9_Witness ==
    /\ IsOverview /\ outcome = "ok"
    /\ \E i \in LinesOfKind("text") :
          /\ HasControl(PreviewSlice(SourceText(out[i])))
          /\ \E j \in 1..Len(out[i].preview) : out[i].preview[j] = BACKSLASH

\* C10: a non-null value at path A that is not a string is no error and
\* leaves the document unchanged, path B included; so does a non-null value
\* that is not a string at path B when path A is absent or null.
C10_NonStringUnchanged ==
    IsExpand =>
        LET a == PathA(jdoc)
            b == PathB(jdoc)
        IN  /\ (a # JNull /\ a.t # "str") => (jres.ok /\ jres.v = jdoc)
            /\ (a = JNull /\ b # JNull /\ b.t # "str") => (jres.ok /\ jres.v = jdoc)

C10_Witness ==
    /\ IsExpand
    /\ PathA(jdoc) = JNum(5) /\ PathB(jdoc) = JStr(<<37, 51, 49>>)
    /\ jres.ok /\ jres.v = jdoc /\ PathB(jres.v) = JStr(<<37, 51, 49>>)

====
